---------------------------- MODULE Spec2Model ----------------------------
(***************************************************************************)
(* envdecode: populating a struct from environment variables, driven by    *)
(* `env` struct tags (src/envdecode.go).                                   *)
(*                                                                         *)
(* Go strings are modelled as sequences of one-character strings, so that  *)
(* strings.Split, strings.HasPrefix, slicing and the strconv parsers are   *)
(* computed character by character.  A struct value is a sequence of       *)
(* fields in declaration order; a field carries what reflect reports about *)
(* it (kind, bits, elem, exported, tag) and its current value.             *)
(***************************************************************************)
EXTENDS Integers, Sequences, FiniteSets, TLC

VARIABLES target, env, FailureFunc, failureCalls, exited, last, report

vars == <<target, env, FailureFunc, failureCalls, exited, last, report>>

-----------------------------------------------------------------------------
(* Bounds of the model.                                                    *)

\* fields per generated record (root record and sub-record)
MaxFields == 2
\* option tokens after the key in a generated tag
MaxOpts == 2
\* calls of Export on a decoded record
MaxExports == 2

-----------------------------------------------------------------------------
(* Strings.                                                                *)

EmptyStr == <<>>

\* strings.HasPrefix(s, p)
HasPrefix(s, p) == Len(s) >= Len(p) /\ SubSeq(s, 1, Len(p)) = p

\* s[n:] of Go (n is a 0-based byte offset, n <= len(s))
From(s, n) == SubSeq(s, n + 1, Len(s))

\* strings.Split(s, sep) for a one-character separator: the pieces between
\* the separators, in order; a string without separator is one piece.
RECURSIVE Split(_, _)
Split(s, c) ==
    IF \A i \in 1..Len(s) : s[i] # c
    THEN <<s>>
    ELSE LET i == CHOOSE k \in 1..Len(s) :
                     s[k] = c /\ \A j \in 1..(k - 1) : s[j] # c
         IN  <<SubSeq(s, 1, i - 1)>> \o Split(SubSeq(s, i + 1, Len(s)), c)

Comma == ","

\* the string literals of the source
StrRequired == <<"r", "e", "q", "u", "i", "r", "e", "d">>
StrDefaultEq == <<"d", "e", "f", "a", "u", "l", "t", "=">>

-----------------------------------------------------------------------------
(* The standard-library parsers Decode calls, on the alphabet of the model *)
(* (digits, sign, the base prefixes, letters, '.', ';', ' ', ':').  Each   *)
(* returns [ok, v]: ok is err == nil, v the parsed value.                  *)

HexDigits == <<"0", "1", "2", "3", "4", "5", "6", "7", "8", "9",
               "a", "b", "c", "d", "e", "f">>

IsDigitIn(c, base) == \E i \in 1..base : HexDigits[i] = c

DigitVal(c) == (CHOOSE i \in 1..16 : HexDigits[i] = c) - 1

Pow2(n) == 2 ^ n

\* the digits of s read in the given base (s is non-empty, all digits valid)
RECURSIVE DigitsValue(_, _)
DigitsValue(s, base) ==
    IF Len(s) = 0 THEN 0
    ELSE DigitsValue(SubSeq(s, 1, Len(s) - 1), base) * base + DigitVal(s[Len(s)])

\* [ok, v] of a parse that succeeded with v, and of one that failed
Parsed(v) == [ok |-> TRUE, v |-> v]
Failed(zero) == [ok |-> FALSE, v |-> zero]

AllDigits(s, base) == \A i \in 1..Len(s) : IsDigitIn(s[i], base)

\* the base a literal of base 0 is read in: 0x, 0b, 0o, a leading 0 is
\* octal, decimal otherwise
BaseOf(s) ==
    IF Len(s) >= 1 /\ s[1] = "0"
    THEN (IF Len(s) >= 3 /\ s[2] \in {"x", "X"} THEN 16
          ELSE IF Len(s) >= 3 /\ s[2] \in {"b", "B"} THEN 2
          ELSE 8)
    ELSE 10

\* the literal without its base prefix
BodyOf(s) ==
    IF Len(s) >= 1 /\ s[1] = "0"
    THEN (IF Len(s) >= 3 /\ s[2] \in {"x", "X", "b", "B", "o", "O"}
          THEN From(s, 2) ELSE From(s, 1))
    ELSE s

InRange(v, max) == IF v <= max THEN Parsed(v) ELSE Failed(0)

ParseUintBody(body, base, max) ==
    IF AllDigits(body, base) THEN InRange(DigitsValue(body, base), max)
    ELSE Failed(0)

\* strconv.ParseUint(s, 0, bits): every digit below the base, and the value
\* within bits
ParseUint(s, bits) ==
    IF Len(s) = 0 THEN Failed(0)
    ELSE ParseUintBody(BodyOf(s), BaseOf(s), Pow2(bits) - 1)

IsNeg(s) == Len(s) >= 1 /\ s[1] = "-"

StripSign(s) == IF Len(s) >= 1 /\ s[1] \in {"+", "-"} THEN From(s, 1) ELSE s

\* un is the magnitude, cutoff is 2^(bits-1)
ParseIntCut(un, neg, cutoff) ==
    IF ~un.ok THEN Failed(0)
    ELSE IF ~neg /\ un.v >= cutoff THEN Failed(0)
    ELSE IF neg /\ un.v > cutoff THEN Failed(0)
    ELSE Parsed(IF neg THEN 0 - un.v ELSE un.v)

\* strconv.ParseInt(s, 0, bits): an optional sign, then ParseUint's syntax
\* (read at the full width of the model's integers), and the value within
\* the signed range of bits
ParseInt(s, bits) ==
    ParseIntCut(ParseUint(StripSign(s), 30), IsNeg(s), Pow2(bits - 1))

\* strconv.ParseBool(s)
ParseBool(s) ==
    IF s \in {<<"1">>, <<"t">>, <<"T">>, <<"T", "R", "U", "E">>,
              <<"t", "r", "u", "e">>, <<"T", "r", "u", "e">>}
    THEN Parsed(TRUE)
    ELSE IF s \in {<<"0">>, <<"f">>, <<"F">>, <<"F", "A", "L", "S", "E">>,
                   <<"f", "a", "l", "s", "e">>, <<"F", "a", "l", "s", "e">>}
    THEN Parsed(FALSE)
    ELSE Failed(FALSE)

\* a float value: mant / 10^frac, with no trailing zero in the fraction
RECURSIVE NormFloat(_, _)
NormFloat(mant, frac) ==
    IF frac > 0 /\ mant % 10 = 0 THEN NormFloat(mant \div 10, frac - 1)
    ELSE [mant |-> mant, frac |-> frac]

\* the position of the '.' of s, Len(s) + 1 when it has none
DotOf(s) ==
    IF \E i \in 1..Len(s) : s[i] = "."
    THEN CHOOSE i \in 1..Len(s) : s[i] = "."
    ELSE Len(s) + 1

FloatSyntaxOk(s) ==
    /\ Cardinality({i \in 1..Len(s) : s[i] = "."}) <= 1
    /\ \E i \in 1..Len(s) : IsDigitIn(s[i], 10)
    /\ \A i \in 1..Len(s) : s[i] = "." \/ IsDigitIn(s[i], 10)

ParseFloatAt(s, neg, dot) ==
    NormFloat((IF neg THEN 0 - 1 ELSE 1)
                 * DigitsValue(SubSeq(s, 1, dot - 1)
                                 \o SubSeq(s, dot + 1, Len(s)), 10),
              Len(SubSeq(s, dot + 1, Len(s))))

ParseFloatBody(s, neg) ==
    IF FloatSyntaxOk(s) THEN Parsed(ParseFloatAt(s, neg, DotOf(s)))
    ELSE Failed(NormFloat(0, 0))

\* strconv.ParseFloat(s, bits) on decimal literals: an optional sign, digits
\* with at most one '.', at least one digit.  (Exponents, hex floats, inf
\* and nan are outside the alphabet of the model's inputs.)
ParseFloat(s, bits) == ParseFloatBody(StripSign(s), IsNeg(s))

\* time.ParseDuration's units, in nanoseconds (minutes and hours are left
\* out: their nanosecond counts are outside the integers of the model, and
\* no input of the model uses them)
UnitNs(u) ==
    CASE u = <<"n", "s">> -> 1
      [] u = <<"u", "s">> -> 1000
      [] u = <<"m", "s">> -> 1000000
      [] u = <<"s">> -> 1000000000
      [] OTHER -> 0

\* the length of the longest prefix of s made of digits (dig = TRUE) or of
\* unit characters, anything but a digit or '.' (dig = FALSE)
RECURSIVE Span(_, _)
Span(s, dig) ==
    IF Len(s) = 0 THEN 0
    ELSE IF (IF dig THEN IsDigitIn(s[1], 10)
                    ELSE ~IsDigitIn(s[1], 10) /\ s[1] # ".")
    THEN 1 + Span(From(s, 1), dig)
    ELSE 0

\* the groups <digits><unit> of a duration: [ok, v] with v in nanoseconds
RECURSIVE DurationGroups(_), DurationUnit(_, _), DurationGroup(_, _, _)
RECURSIVE DurationTail(_, _)
DurationGroups(s) ==
    IF Len(s) = 0 THEN Parsed(0) ELSE DurationUnit(s, Span(s, TRUE))

\* nd digits lead s
DurationUnit(s, nd) ==
    IF nd = 0 THEN Failed(0) ELSE DurationGroup(s, nd, Span(From(s, nd), FALSE))

\* nd digits, then nu unit characters
DurationGroup(s, nd, nu) ==
    IF nu = 0 \/ UnitNs(SubSeq(s, nd + 1, nd + nu)) = 0 THEN Failed(0)
    ELSE DurationTail(DigitsValue(SubSeq(s, 1, nd), 10)
                         * UnitNs(SubSeq(s, nd + 1, nd + nu)),
                      DurationGroups(From(s, nd + nu)))

DurationTail(v, tail) == IF tail.ok THEN Parsed(v + tail.v) ELSE Failed(0)

Signed(r, neg) == IF r.ok /\ neg THEN Parsed(0 - r.v) ELSE r

\* time.ParseDuration(s): an optional sign, then "0" or one or more groups
\* of digits and a unit.  (Fractions are outside the model's inputs.)
ParseDurationBody(s, neg) ==
    IF s = <<"0">> THEN Parsed(0)
    ELSE IF Len(s) = 0 THEN Failed(0)
    ELSE Signed(DurationGroups(s), neg)

ParseDuration(s) == ParseDurationBody(StripSign(s), IsNeg(s))

\* url.Parse(s), as far as Decode depends on it: a URL whose first path
\* segment would hold a colon (here: a leading ':') has no scheme and is
\* refused; any other input of the model yields a freshly allocated URL,
\* a struct without env tags.
ParseURL(s) ==
    IF Len(s) >= 1 /\ s[1] = ":"
    THEN Failed(<<>>)
    ELSE Parsed(<<[bits |-> 0, elem |-> "", exported |-> TRUE,
                   kind |-> "string", tag |-> EmptyStr, val |-> s]>>)

-----------------------------------------------------------------------------
(* Errors and outcomes of a call.  kind "nil" is a nil error, "invalid" is *)
(* ErrInvalidTarget, "missing" the fmt.Errorf naming the key, and "panic"  *)
(* a call that did not return.                                             *)

NoErr == [kind |-> "nil", key |-> EmptyStr]
ErrInvalidTarget == [kind |-> "invalid", key |-> EmptyStr]
ErrMissing(k) == [kind |-> "missing", key |-> k]
Panic == [kind |-> "panic", key |-> EmptyStr]

-----------------------------------------------------------------------------
(* The tag of a field.                                                     *)

\* one turn of the loop over parts[1:]
ScanOption_exact(o, d) ==
    [required |-> IF ~d.required THEN o = StrRequired ELSE d.required,
     hasDefault |-> IF HasPrefix(o, StrDefaultEq) THEN TRUE ELSE d.hasDefault,
     defaultValue |-> IF HasPrefix(o, StrDefaultEq) THEN From(o, 8)
                      ELSE d.defaultValue]

ScanOption(o, d) ==
    [required |-> IF ~d.required THEN HasPrefix(o, StrRequired) ELSE d.required,
     hasDefault |-> IF HasPrefix(o, StrDefaultEq) THEN TRUE ELSE d.hasDefault,
     defaultValue |-> IF HasPrefix(o, StrDefaultEq) THEN From(o, 8)
                      ELSE d.defaultValue]

RECURSIVE ScanOptions(_, _)
ScanOptions(opts, d) ==
    IF opts = <<>> THEN d
    ELSE ScanOptions(Tail(opts), ScanOption(Head(opts), d))

Directive(key, d) ==
    [key |-> key, required |-> d.required, hasDefault |-> d.hasDefault,
     defaultValue |-> d.defaultValue]

ParseParts(parts) ==
    Directive(parts[1],
              ScanOptions(Tail(parts), [required |-> FALSE, hasDefault |-> FALSE,
                                        defaultValue |-> EmptyStr]))

\* parts[0] and the required / hasDefault / defaultValue locals of Decode
ParseTag(tag) == ParseParts(Split(tag, Comma))

\* os.Getenv(k): the value of k, empty when k is not set
Getenv(e, k) == IF k \in DOMAIN e THEN e[k] ELSE EmptyStr

\* the tag declares both "required" and "default"
Conflict_nonEmptyDefault(d) == d.required /\ d.defaultValue # EmptyStr

Conflict(d) == d.required /\ d.hasDefault

\* the string Decode goes on with: the environment's, else the default
Resolve(v, d) == IF v = EmptyStr THEN d.defaultValue ELSE v

-----------------------------------------------------------------------------
(* Fields.  kind is reflect's Kind of the field ("duration" is the Int64   *)
(* kind of type time.Duration); elem is the element type of a "ptr" or     *)
(* "slice"; a "ptr" value is [nil, v] where v is the pointee (for a nil    *)
(* pointer, the zero value of the pointee's type).                         *)

\* f.Elem().Kind() == reflect.Struct: a non-nil pointer to a struct
IsStructPtr(f) ==
    f.kind = "ptr" /\ f.elem \in {"struct", "url"} /\ ~f.val.nil

\* the field is a struct, or a pointer the walk follows
Descends_allocating(f) ==
    f.kind = "struct" \/ (f.kind = "ptr" /\ f.elem \in {"struct", "url"})

Descends(f) == f.kind = "struct" \/ IsStructPtr(f)

\* the struct behind a field the walk descends into, and the field with
\* that struct replaced
SubStruct(f) == IF f.kind = "ptr" THEN f.val.v ELSE f.val

WithSubStruct(f, sub) ==
    IF f.kind = "ptr" THEN [f EXCEPT !.val = [nil |-> FALSE, v |-> sub]]
    ELSE [f EXCEPT !.val = sub]

\* f.CanSet(): every field is addressable (the target is behind a pointer),
\* so this is whether the field was reached through exported fields only
CanSet(f) == f.exported

\* if err == nil { f.Set(v) }
SetIfOk(r, old) == IF r.ok THEN r.v ELSE old

SetPtrIfOk(r, old) == IF r.ok THEN [nil |-> FALSE, v |-> r.v] ELSE old

\* the switch on f.Kind(): the value of the field after it.  A field the
\* walk descended into is of kind Struct here, which no case handles.
Coerce_zeroOnFailure(f, s) ==
    CASE Descends(f) -> f.val
      [] f.kind = "bool" -> ParseBool(s).v
      [] f.kind = "float" -> ParseFloat(s, f.bits).v
      [] f.kind = "duration" -> ParseDuration(s).v
      [] f.kind = "int" -> ParseInt(s, f.bits).v
      [] f.kind = "uint" -> ParseUint(s, f.bits).v
      [] f.kind = "string" -> s
      [] f.kind = "ptr" /\ f.elem = "url" -> SetPtrIfOk(ParseURL(s), f.val)
      [] OTHER -> f.val

Coerce(f, s) ==
    CASE Descends(f) -> f.val
      [] f.kind = "bool" -> SetIfOk(ParseBool(s), f.val)
      [] f.kind = "float" -> SetIfOk(ParseFloat(s, f.bits), f.val)
      [] f.kind = "duration" -> SetIfOk(ParseDuration(s), f.val)
      [] f.kind = "int" -> SetIfOk(ParseInt(s, f.bits), f.val)
      [] f.kind = "uint" -> SetIfOk(ParseUint(s, f.bits), f.val)
      [] f.kind = "string" -> s
      [] f.kind = "ptr" /\ f.elem = "url" -> SetPtrIfOk(ParseURL(s), f.val)
      [] OTHER -> f.val

-----------------------------------------------------------------------------
(* Decode.  The result of a call on a struct is [out, s, walked, seen]:    *)
(* the error (or panic) of the call, the struct as the call leaves it, and *)
(* what the call did: walked, the paths of the structs Decode was called   *)
(* on below it; seen, the paths of the fields whose turn of the loop       *)
(* began.  The path of a field is the sequence of the indices of the       *)
(* fields descended through from the target.                               *)

Return(out, s, walked, seen) ==
    [out |-> out, s |-> s, walked |-> walked, seen |-> seen]

\* what the turn of a field did, added to what the rest of the loop does
Merge(rest, walked, seen) ==
    [rest EXCEPT !.walked = @ \cup walked, !.seen = @ \cup seen]

RECURSIVE Loop(_, _, _, _, _), AfterNested(_, _, _, _, _, _)
RECURSIVE TagStep(_, _, _, _, _, _, _), DirectiveStep(_, _, _, _, _, _, _, _)
RECURSIVE SetStep(_, _, _, _, _, _, _, _)

\* for i := ...; i < s.NumField(); i++, from field i of struct s at path p
\* on, with setFieldCount fields set so far; then the check of setFieldCount
Loop(s, e, p, i, setFieldCount) ==
    IF i > Len(s)
    THEN Return(IF setFieldCount = 0 THEN ErrInvalidTarget ELSE NoErr, s, {}, {})
    ELSE IF ~Descends(s[i])
    THEN TagStep(s, e, p, i, setFieldCount, {}, {Append(p, i)})
    \* f.Addr().Interface() panics on a struct reached through an
    \* unexported field
    ELSE IF ~s[i].exported
    THEN Return(Panic, s, {}, {Append(p, i)})
    ELSE AfterNested(s, e, p, i, setFieldCount,
                     Loop(SubStruct(s[i]), e, Append(p, i), 1, 0))

\* Decode(ss) returned nested: its error is dropped, its panic is not
AfterNested(s, e, p, i, setFieldCount, nested) ==
    IF nested.out = Panic
    THEN Return(Panic, [s EXCEPT ![i] = WithSubStruct(@, nested.s)],
                {Append(p, i)} \cup nested.walked,
                {Append(p, i)} \cup nested.seen)
    ELSE TagStep([s EXCEPT ![i] = WithSubStruct(@, nested.s)], e, p, i,
                 setFieldCount, {Append(p, i)} \cup nested.walked,
                 {Append(p, i)} \cup nested.seen)

\* if !f.CanSet() { continue }; if tag == "" { continue }
TagStep(s, e, p, i, setFieldCount, walked, seen) ==
    IF ~CanSet(s[i]) \/ s[i].tag = EmptyStr
    THEN Merge(Loop(s, e, p, i + 1, setFieldCount), walked, seen)
    ELSE DirectiveStep(s, e, p, i, setFieldCount, walked, seen,
                       ParseTag(s[i].tag))

\* the panic on "required" with "default", and the error of a required key
\* without value
DirectiveStep(s, e, p, i, setFieldCount, walked, seen, d) ==
    IF Conflict(d) THEN Return(Panic, s, walked, seen)
    ELSE IF Getenv(e, d.key) = EmptyStr /\ d.required
    THEN Return(ErrMissing(d.key), s, walked, seen)
    ELSE SetStep(s, e, p, i, setFieldCount, walked, seen,
                 Resolve(Getenv(e, d.key), d))

\* if env == "" { continue }; setFieldCount++; the switch on f.Kind()
SetStep(s, e, p, i, setFieldCount, walked, seen, r) ==
    IF r = EmptyStr
    THEN Merge(Loop(s, e, p, i + 1, setFieldCount), walked, seen)
    ELSE Merge(Loop([s EXCEPT ![i].val = Coerce(s[i], r)], e, p, i + 1,
                    setFieldCount + 1),
               walked, seen)

\* the result of Decode on target t, from the result of the loop on *t
Decoded(t, r) ==
    [out |-> r.out, t |-> [t EXCEPT !.s = r.s],
     walked |-> {<<>>} \cup r.walked, seen |-> r.seen]

Refused(t) == [out |-> ErrInvalidTarget, t |-> t, walked |-> {}, seen |-> {}]

\* Decode(target) with the environment e: [out, t, walked, seen], t the
\* target as the call leaves it.  A target is [shape, nil, elem, s]: shape
\* "ptr" or "value", elem the kind pointed to (or passed), s the struct.
Decode_noKindCheck(t, e) ==
    IF t.nil \/ t.elem # "struct" THEN Refused(t)
    ELSE Decoded(t, Loop(t.s, e, <<>>, 1, 0))

Decode(t, e) ==
    IF t.shape # "ptr" \/ t.nil THEN Refused(t)
    ELSE IF t.elem # "struct" THEN Refused(t)
    ELSE Decoded(t, Loop(t.s, e, <<>>, 1, 0))

\* MustDecode(target): whether FailureFunc is called with Decode's error
MustDecodeFails_always(out) == out.kind # "panic"

MustDecodeFails(out) == out.kind \in {"invalid", "missing"}

-----------------------------------------------------------------------------
(* The inputs: targets and environments a caller can pass.                 *)

K1 == <<"K", "1">>
K2 == <<"K", "2">>
KV == <<"K", "V">>
EnvKeys == {K1, K2, KV}

StrOld == <<"o", "l", "d">>
StrFoo == <<"f", "o", "o">>
StrBar == <<"b", "a", "r">>

\* s[1] , s[2] , ... : the tag made of the given tokens
RECURSIVE JoinComma(_)
JoinComma(s) ==
    IF Len(s) = 0 THEN EmptyStr
    ELSE IF Len(s) = 1 THEN s[1]
    ELSE s[1] \o <<Comma>> \o JoinComma(Tail(s))

Field(kind, bits, elem, exported, tag, val) ==
    [bits |-> bits, elem |-> elem, exported |-> exported, kind |-> kind,
     tag |-> tag, val |-> val]

StringField(exported, tag) == Field("string", 0, "", exported, tag, StrOld)

StructField(exported, s) == Field("struct", 0, "", exported, EmptyStr, s)

PtrField(exported, isNil, s) ==
    Field("ptr", 0, "struct", exported, EmptyStr, [nil |-> isNil, v |-> s])

TagDefaultD == StrDefaultEq \o <<"d">>

\* the string fields the generated records are made of
PlainK1 == StringField(TRUE, K1)
RequiredK2 == StringField(TRUE, JoinComma(<<K2, StrRequired>>))
ConflictK1 == StringField(TRUE, JoinComma(<<K1, StrRequired, TagDefaultD>>))
DefaultK2 == StringField(TRUE, JoinComma(<<K2, TagDefaultD>>))
Untagged == StringField(TRUE, EmptyStr)
UnexportedRequiredK2 == StringField(FALSE, JoinComma(<<K2, StrRequired>>))
UnexportedConflictK1 ==
    StringField(FALSE, JoinComma(<<K1, StrRequired, TagDefaultD>>))

Leaves == {PlainK1, RequiredK2, ConflictK1, DefaultK2, Untagged,
           UnexportedRequiredK2, UnexportedConflictK1}

\* the structs nested in the generated records
SubStructs == {<<PlainK1>>, <<RequiredK2, PlainK1>>, <<ConflictK1>>,
               <<Untagged>>, <<StructField(TRUE, <<PlainK1>>)>>}

SubRecordFields ==
    {StructField(TRUE, s) : s \in SubStructs}
      \cup {PtrField(TRUE, FALSE, s) : s \in SubStructs}
      \cup {PtrField(TRUE, TRUE, <<RequiredK2, PlainK1>>),
            StructField(FALSE, <<PlainK1>>),
            PtrField(FALSE, FALSE, <<PlainK1>>),
            PtrField(FALSE, TRUE, <<PlainK1>>)}

SeqsUpTo(S, n) == UNION {[1..k -> S] : k \in 1..n}

PtrToStruct(s) == [shape |-> "ptr", nil |-> FALSE, elem |-> "struct", s |-> s]

EnvOf(v1, v2, vv) ==
    [k \in EnvKeys |-> IF k = K1 THEN v1 ELSE IF k = K2 THEN v2 ELSE vv]

\* records of up to MaxFields fields, nested one or two levels, under every
\* presence of the two keys
WalkInputs ==
    {[t |-> PtrToStruct(s), e |-> EnvOf(v1, v2, EmptyStr)] :
        s \in SeqsUpTo(Leaves \cup SubRecordFields, MaxFields),
        v1 \in {EmptyStr, StrFoo}, v2 \in {EmptyStr, StrBar}}


\* the strings an environment variable or a default holds in the inputs
CoerceValues ==
    {EmptyStr,
     <<"t", "r", "u", "e">>,
     <<"T">>,
     <<"0">>,
     <<"m", "a", "y", "b", "e">>,
     <<"5">>,
     <<"-", "3">>,
     <<"1", "2", "7">>,
     <<"1", "2", "8">>,
     <<"2", "5", "5">>,
     <<"2", "5", "6">>,
     <<"6", "0", "0", "0", "0">>,
     <<"7", "0", "0", "0", "0">>,
     <<"0", "x", "1", "0">>,
     <<"0", "1", "0">>,
     <<"1", ".", "5">>,
     <<"a", "s", "d", "f">>,
     <<"1", "0", "m", "s">>,
     <<"1", "s", "5", "m", "s">>,
     <<"t", "r", "u", "e", ";", " ", "f", "a", "l", "s", "e", ";", " ", "t", "r", "u", "e">>,
     <<"1", ";", "2", ";", "3">>,
     <<"7", " ", ";", "x">>,
     <<"h", "t", "t", "p", ":", "/", "/", "x">>,
     <<":", "x">>}

CoerceDefaults == {<<"1", "0", "0">>, <<"t", "r", "u", "e">>, <<"a", "s", "d", "f">>, <<"1", ";", "2", ";", "3">>}

FloatOf(mant, frac) == [mant |-> mant, frac |-> frac]

ZeroURL == ParseURL(EmptyStr).v

\* <<kind, bits, elem, value before the call>> of the fields to coerce into:
\* every shape, at its zero value and at a value set by the caller
Shapes ==
    {<<"bool", 0, "", FALSE>>, <<"bool", 0, "", TRUE>>,
     <<"int", 8, "", 0>>, <<"int", 8, "", 7>>,
     <<"int", 16, "", 0>>, <<"int", 16, "", 7>>,
     <<"uint", 8, "", 0>>, <<"uint", 8, "", 7>>,
     <<"uint", 16, "", 0>>, <<"uint", 16, "", 7>>,
     <<"float", 64, "", FloatOf(0, 0)>>, <<"float", 64, "", FloatOf(25, 1)>>,
     <<"string", 0, "", EmptyStr>>, <<"string", 0, "", StrOld>>,
     <<"duration", 64, "", 0>>, <<"duration", 64, "", 7>>,
     <<"ptr", 0, "url", [nil |-> TRUE, v |-> ZeroURL]>>,
     <<"ptr", 0, "url", [nil |-> FALSE, v |-> ParseURL(StrOld).v]>>,
     <<"ptr", 0, "bool", [nil |-> TRUE, v |-> FALSE]>>,
     <<"slice", 0, "bool", <<>>>>, <<"slice", 0, "bool", <<TRUE>>>>,
     <<"slice", 16, "int", <<>>>>, <<"slice", 16, "int", <<7>>>>}

CoerceTags == {KV} \cup {JoinComma(<<KV, StrDefaultEq \o d>>) : d \in CoerceDefaults}

\* one field of every shape under every value, alone in the record or
\* followed by a string field whose key is set
CoerceInputs ==
    {[t |-> PtrToStruct(<<Field(sh[1], sh[2], sh[3], TRUE, tag, sh[4])>> \o rest),
      e |-> EnvOf(StrFoo, EmptyStr, v)] :
        sh \in Shapes, tag \in CoerceTags, v \in CoerceValues,
        rest \in {<<>>, <<PlainK1>>}}

\* the option tokens of the generated tags
OptTokens ==
    {StrRequired, StrRequired \o <<"X">>, <<"x">> \o StrRequired,
     StrDefaultEq \o <<"5">>, StrDefaultEq, StrDefaultEq \o <<"a", "=", "b">>,
     <<"a", "s", "d", "f", "=", "a", "s", "d", "f">>}

TagOpts == {<<>>} \cup SeqsUpTo(OptTokens, MaxOpts)

\* one string field under every tag of a key and up to MaxOpts options
TagInputs ==
    {[t |-> PtrToStruct(<<StringField(TRUE, JoinComma(<<k>> \o opts))>>),
      e |-> EnvOf(v1, EmptyStr, EmptyStr)] :
        k \in {K1, EmptyStr}, opts \in TagOpts, v1 \in {EmptyStr, StrFoo}}

\* the targets Decode refuses: a struct passed by value, a nil pointer, a
\* pointer to a bool and a bool
RefusedInputs ==
    {[t |-> [shape |-> sh[1], nil |-> sh[2], elem |-> sh[3], s |-> sh[4]],
      e |-> EnvOf(v1, EmptyStr, EmptyStr)] :
        sh \in {<<"value", FALSE, "struct", <<PlainK1>>>>,
                <<"ptr", TRUE, "struct", <<PlainK1>>>>,
                <<"ptr", FALSE, "bool", <<>>>>,
                <<"value", FALSE, "bool", <<>>>>},
        v1 \in {EmptyStr, StrFoo}}

\* fields of the types with a Decode(string) error method on their pointer:
\* decoderString, decoderStruct and *decoderStruct.  Such a field carries
\* the mark decoder; Decode never asks for the method.
StrOof == <<"o", "o", "f">>

StrJSONFoo ==
    <<"{", "\"", "s", "t", "r", "i", "n", "g", "\"", ":", "\"", "f", "o", "o",
      "\"", "}">>

\* decoderStruct{String: "old"}
DecoderStruct == <<StringField(TRUE, EmptyStr)>>

DecoderField(kind, elem, tag, val) ==
    [bits |-> 0, decoder |-> TRUE, elem |-> elem, exported |-> TRUE,
     kind |-> kind, tag |-> tag, val |-> val]

DecoderFields(tag) ==
    {DecoderField("string", "", tag, StrOld),
     DecoderField("struct", "", tag, DecoderStruct),
     DecoderField("ptr", "struct", tag,
                  [nil |-> FALSE, v |-> DecoderStruct]),
     DecoderField("ptr", "struct", tag,
                  [nil |-> TRUE, v |-> DecoderStruct])}

\* one field of a decoder type, alone in the record or followed by a string
\* field whose key is set
DecoderInputs ==
    {[t |-> PtrToStruct(<<f>> \o rest), e |-> EnvOf(StrFoo, EmptyStr, v)] :
        f \in DecoderFields(KV)
                \cup DecoderFields(JoinComma(<<KV, StrDefaultEq \o StrOof>>)),
        v \in {EmptyStr, StrOof, StrJSONFoo},
        rest \in {<<>>, <<PlainK1>>}}

-----------------------------------------------------------------------------
(* Export, as the specification describes it: the traversal of Decode,     *)
(* read-only, writing one ConfigInfo per configuration-bound leaf field in *)
(* depth-first declaration order, then sorted by field path and key.  The  *)
(* fields of every struct type of the model are named Fc, Fa, Fe, Fb, Fd   *)
(* in declaration order, so that the declaration order is not the sorted   *)
(* order.                                                                  *)

FieldNames == <<"c", "a", "e", "b", "d">>

FieldName(i) == <<"F", FieldNames[i]>>

\* the characters of field paths and keys, in the order of their codes
Alphabet == <<".", "1", "2", "F", "K", "V", "a", "b", "c", "d", "e">>

CharRank(c) == CHOOSE i \in 1..Len(Alphabet) : Alphabet[i] = c

\* a < b for strings
RECURSIVE StrLess(_, _)
StrLess(a, b) ==
    IF b = <<>> THEN FALSE
    ELSE IF a = <<>> THEN TRUE
    ELSE IF a[1] = b[1] THEN StrLess(Tail(a), Tail(b))
    ELSE CharRank(a[1]) < CharRank(b[1])

\* the total order of a report: by field path, then by key
ConfigInfoLess(x, y) ==
    \/ StrLess(x.field, y.field)
    \/ x.field = y.field /\ StrLess(x.envVar, y.envVar)

RECURSIVE Insert(_, _)
Insert(x, sorted) ==
    IF sorted = <<>> THEN <<x>>
    ELSE IF ConfigInfoLess(sorted[1], x)
    THEN <<sorted[1]>> \o Insert(x, Tail(sorted))
    ELSE <<x>> \o sorted

RECURSIVE SortConfigInfo(_)
SortConfigInfo(cfg) ==
    IF cfg = <<>> THEN cfg ELSE Insert(Head(cfg), SortConfigInfo(Tail(cfg)))

\* a leaf field: scalar, string, sequence, URL or custom-decodable; not a
\* nested record or a reference to one
ExportLeaf(f) ==
    \/ "decoder" \in DOMAIN f
    \/ ~(f.kind = "struct" \/ (f.kind = "ptr" /\ f.elem = "struct"))

\* the entry of field f under directive d; value is the field's current
\* value, which the report prints
ConfigInfo_usesResolved(f, e, name, d) ==
    [field |-> name, envVar |-> d.key, value |-> f.val,
     defaultValue |-> d.defaultValue,
     usesEnv |-> Resolve(Getenv(e, d.key), d) # EmptyStr,
     required |-> d.required, hasDefault |-> d.hasDefault]

ConfigInfo(f, e, name, d) ==
    [field |-> name, envVar |-> d.key, value |-> f.val,
     defaultValue |-> d.defaultValue,
     usesEnv |-> Getenv(e, d.key) # EmptyStr,
     required |-> d.required, hasDefault |-> d.hasDefault]

\* the entries of field f itself: one if it is a configuration-bound leaf
ExportEntry(f, e, name) ==
    IF f.tag # EmptyStr /\ ExportLeaf(f) /\ ParseTag(f.tag).key # EmptyStr
    THEN <<ConfigInfo(f, e, name, ParseTag(f.tag))>>
    ELSE <<>>

\* the entries of the fields of struct s from field i on, and of one field
\* with the entries of the record nested in it
RECURSIVE ExportFields(_, _, _, _)
RECURSIVE ExportField(_, _, _)
ExportField(f, e, name) ==
    IF ~CanSet(f) THEN <<>>
    ELSE (IF Descends(f)
          THEN ExportFields(SubStruct(f), e, name \o <<".">>, 1)
          ELSE <<>>)
         \o ExportEntry(f, e, name)

ExportFields(s, e, prefix, i) ==
    IF i > Len(s) THEN <<>>
    ELSE ExportField(s[i], e, prefix \o FieldName(i))
           \o ExportFields(s, e, prefix, i + 1)

\* export(target) -> (ordered list of ConfigInfo, error)
Export(t, e) ==
    IF t.shape # "ptr" \/ t.nil \/ t.elem # "struct"
    THEN [cfg |-> <<>>, err |-> ErrInvalidTarget]
    ELSE [cfg |-> SortConfigInfo(ExportFields(t.s, e, EmptyStr, 1)),
          err |-> NoErr]

-----------------------------------------------------------------------------
(* The state machine: a caller holding a target, the process environment   *)
(* and the package variable FailureFunc.  last records the call made: its  *)
(* operation, its outcome, what the target, the environment and            *)
(* FailureFunc were before it, and what the walk did.  failureCalls is the *)
(* sequence of calls of FailureFunc, exited whether log.Fatalf ended the   *)
(* process.                                                                *)

NoCall(t, e) ==
    [op |-> "none", out |-> NoErr, pre |-> t, env |-> e, ff |-> "fatal",
     walked |-> {}, seen |-> {}]

Start(in) ==
    /\ target = in.t
    /\ env = in.e
    /\ FailureFunc = "fatal"
    /\ failureCalls = <<>>
    /\ exited = FALSE
    /\ last = NoCall(in.t, in.e)
    /\ report = <<>>

Init ==
    \/ \E in \in WalkInputs : Start(in)
    \/ \E in \in CoerceInputs : Start(in)
    \/ \E in \in TagInputs : Start(in)
    \/ \E in \in RefusedInputs : Start(in)
    \/ \E in \in DecoderInputs : Start(in)

\* FailureFunc = func(err error) { ... }: the caller installs its own
SetFailureFunc ==
    /\ ~exited
    /\ last.op = "none"
    /\ FailureFunc = "fatal"
    /\ FailureFunc' = "custom"
    /\ UNCHANGED <<target, env, failureCalls, exited, last, report>>

\* err := Decode(target)
Called(op, r) ==
    /\ target' = r.t
    /\ last' = [op |-> op, out |-> r.out, pre |-> target, env |-> env,
                ff |-> FailureFunc, walked |-> r.walked, seen |-> r.seen]

CallDecode ==
    /\ ~exited
    /\ last.op = "none"
    /\ Called("Decode", Decode(target, env))
    /\ UNCHANGED <<env, FailureFunc, failureCalls, exited, report>>

\* MustDecode(target): Decode, then FailureFunc(err) when err != nil; the
\* default FailureFunc ends the process
MustDecode ==
    /\ ~exited
    /\ last.op = "none"
    /\ Called("MustDecode", Decode(target, env))
    /\ failureCalls' =
          IF MustDecodeFails(last'.out)
          THEN Append(failureCalls, [fn |-> FailureFunc, err |-> last'.out])
          ELSE failureCalls
    /\ exited' = (MustDecodeFails(last'.out) /\ FailureFunc = "fatal")
    /\ UNCHANGED <<env, FailureFunc, report>>

\* rc, err := Export(target), on a record a call has decoded; report is
\* the sequence of the results of these calls
CallExport ==
    /\ ~exited
    /\ last.op # "none" /\ last.out # Panic
    /\ Len(report) < MaxExports
    /\ report' = Append(report, Export(target, env))
    /\ UNCHANGED <<target, env, FailureFunc, failureCalls, exited, last>>

Next == SetFailureFunc \/ CallDecode \/ MustDecode \/ CallExport

Spec == Init /\ [][Next]_vars

-----------------------------------------------------------------------------
(* What the claims speak of.  These read a tag, a record and the walk      *)
(* order as the specification words them, independently of the operators   *)
(* that model Decode.                                                      *)

Done == last.op # "none"

\* a non-nil pointer to a struct
WellFormed(t) == t.shape = "ptr" /\ ~t.nil /\ t.elem = "struct"

\* a by-value sub-record, or a non-null optional sub-record
IsSubRecord(f) ==
    \/ f.kind = "struct"
    \/ f.kind = "ptr" /\ f.elem \in {"struct", "url"} /\ ~f.val.nil

StructOf(f) == IF f.kind = "ptr" THEN f.val.v ELSE f.val

\* the field of struct s at path q
RECURSIVE FieldAt(_, _)
FieldAt(s, q) ==
    IF Len(q) = 1 THEN s[q[1]] ELSE FieldAt(StructOf(s[q[1]]), Tail(q))

\* the paths of the fields of s and of its reachable sub-records: those
\* nested by value or behind a non-null reference, through settable fields
RECURSIVE FieldPaths(_, _)
FieldPaths(s, p) ==
    UNION {{Append(p, i)}
             \cup (IF IsSubRecord(s[i]) /\ s[i].exported
                   THEN FieldPaths(StructOf(s[i]), Append(p, i)) ELSE {}) :
           i \in 1..Len(s)}

\* the paths of all the fields of the type of s, also those behind null
\* references and unsettable fields
RECURSIVE TypePaths(_, _)
TypePaths(s, p) ==
    UNION {{Append(p, i)}
             \cup (IF s[i].kind = "struct"
                      \/ (s[i].kind = "ptr" /\ s[i].elem \in {"struct", "url"})
                   THEN TypePaths(StructOf(s[i]), Append(p, i)) ELSE {}) :
           i \in 1..Len(s)}

IsProperPrefix(a, b) == Len(a) < Len(b) /\ SubSeq(b, 1, Len(a)) = a

\* the tag of the field at a comes before the tag of the field at b in the
\* walk: a sub-record is walked before the tag of its own field is read
Before(a, b) ==
    /\ a # b
    /\ IF IsProperPrefix(b, a) THEN TRUE
       ELSE IF IsProperPrefix(a, b) THEN FALSE
       ELSE LET k == CHOOSE n \in 1..Len(a) :
                        a[n] # b[n] /\ \A j \in 1..(n - 1) : a[j] = b[j]
            IN  a[k] < b[k]

\* the directive of a tag: the first token is the key, a later token
\* beginning with "required" makes it required, the last later token
\* beginning with "default=" gives the default
TagTokens(tag) == Split(tag, Comma)

IsRequiredToken(o) == HasPrefix(o, StrRequired)

IsDefaultToken(o) == HasPrefix(o, StrDefaultEq)

TagDirective(tag) ==
    LET parts == TagTokens(tag)
        defs == {i \in 2..Len(parts) : IsDefaultToken(parts[i])}
        lastDef == CHOOSE i \in defs : \A j \in defs : j <= i
    IN  [key |-> parts[1],
         required |-> \E i \in 2..Len(parts) : IsRequiredToken(parts[i]),
         hasDefault |-> defs # {},
         defaultValue |-> IF defs = {} THEN EmptyStr
                          ELSE SubSeq(parts[lastDef], Len(StrDefaultEq) + 1,
                                      Len(parts[lastDef]))]

IsBound(f) == f.exported /\ f.tag # EmptyStr

EnvValue(f, e) == Getenv(e, TagDirective(f.tag).key)

\* the resolved value: the environment's if non-empty, else the default
ResolvedValue(f, e) ==
    IF EnvValue(f, e) # EmptyStr THEN EnvValue(f, e)
    ELSE TagDirective(f.tag).defaultValue

RequiredMissing(f, e) ==
    IsBound(f) /\ TagDirective(f.tag).required /\ EnvValue(f, e) = EmptyStr

DeclaresBoth(f) ==
    IsBound(f) /\ TagDirective(f.tag).required /\ TagDirective(f.tag).hasDefault

IsScalar(f) ==
    f.kind \in {"bool", "int", "uint", "float", "string", "duration"}

\* the coercion of string s into the shape of field f: [ok, v]
Coerced(kind, bits, s) ==
    CASE kind = "bool" -> ParseBool(s)
      [] kind = "int" -> ParseInt(s, bits)
      [] kind = "uint" -> ParseUint(s, bits)
      [] kind = "float" -> ParseFloat(s, bits)
      [] kind = "duration" -> ParseDuration(s)
      [] kind = "string" -> Parsed(s)
      [] OTHER -> Failed(0)

PrePaths == FieldPaths(last.pre.s, <<>>)
PreField(q) == FieldAt(last.pre.s, q)
PostField(q) == FieldAt(target.s, q)

FirstRequiredMissing(m) ==
    /\ RequiredMissing(PreField(m), last.env)
    /\ ~\E m2 \in PrePaths :
           RequiredMissing(PreField(m2), last.env) /\ Before(m2, m)

-----------------------------------------------------------------------------
\* C1: in every record, at any nesting depth, a settable required field
\* whose key has no non-empty value makes Decode abort at that field: the
\* call returns the missing-required error naming the key, and no field
\* after it in walk order is modified.
C1_RequiredAbortsWalk ==
    (Done /\ WellFormed(last.pre) /\ last.out # Panic) =>
        \A m \in PrePaths :
            FirstRequiredMissing(m) =>
                /\ last.out = ErrMissing(TagDirective(PreField(m).tag).key)
                /\ \A q \in PrePaths :
                       (Before(m, q) /\ ~IsSubRecord(PreField(q)))
                           => PostField(q).val = PreField(q).val

\* C2: for a well-formed target with no missing required key, Decode
\* returns ErrInvalidTarget exactly when no tagged, settable field of the
\* record or of a reachable sub-record received a non-empty resolved value.
C2_InvalidIffNothingResolved ==
    (/\ Done /\ WellFormed(last.pre) /\ last.out # Panic
     /\ ~\E m \in PrePaths : RequiredMissing(PreField(m), last.env)) =>
        (last.out = ErrInvalidTarget
           <=> ~\E q \in PrePaths :
                   /\ IsBound(PreField(q))
                   /\ ResolvedValue(PreField(q), last.env) # EmptyStr)

\* C3 as claimed: whenever the record holds a settable field declaring both
\* "required" and "default", Decode panics, whatever the other fields are.
C3_ConflictAlwaysPanics ==
    (/\ Done /\ WellFormed(last.pre)
     /\ \E q \in PrePaths : DeclaresBoth(PreField(q))) => last.out = Panic

\* C3: whenever the record holds a settable field declaring both "required"
\* and "default", and no settable required field with a missing key comes
\* before it in walk order, Decode panics, whatever the environment holds
\* and whatever the other fields are.
C3_ConflictPanicsWhenReached ==
    (/\ Done /\ WellFormed(last.pre)
     /\ \E q \in PrePaths :
           /\ DeclaresBoth(PreField(q))
           /\ ~\E m \in PrePaths :
                  RequiredMissing(PreField(m), last.env) /\ Before(m, q))
        => last.out = Panic

\* a field declaring both that is not the first field of its record, in a
\* call that panicked although an earlier field was set from the environment
C3_Witness ==
    /\ Done /\ last.out = Panic
    /\ \E q \in PrePaths :
          /\ DeclaresBoth(PreField(q)) /\ q[Len(q)] > 1
          /\ \E m \in PrePaths :
                 /\ Before(m, q) /\ PreField(m).kind = "string"
                 /\ PreField(m).val = StrOld /\ PostField(m).val = StrFoo

\* C4: after a successful Decode every tagged, settable scalar field equals
\* the parse of the environment value when that is non-empty and parseable,
\* the parse of the default when the value is empty and the default is not,
\* and its value before the call when there is neither.
C4_ScalarFieldsResolved ==
    (Done /\ WellFormed(last.pre) /\ last.out = NoErr) =>
        \A q \in PrePaths :
            (IsBound(PreField(q)) /\ IsScalar(PreField(q))) =>
                LET f == PreField(q)
                    v == EnvValue(f, last.env)
                    dflt == TagDirective(f.tag).defaultValue
                IN  /\ (v # EmptyStr /\ Coerced(f.kind, f.bits, v).ok)
                          => PostField(q).val = Coerced(f.kind, f.bits, v).v
                    /\ (/\ v = EmptyStr /\ dflt # EmptyStr
                        /\ Coerced(f.kind, f.bits, dflt).ok)
                          => PostField(q).val = Coerced(f.kind, f.bits, dflt).v
                    /\ (v = EmptyStr /\ dflt = EmptyStr)
                          => PostField(q).val = f.val

\* C5: Decode of a target that is not a pointer, is a nil pointer or points
\* to a non-struct returns ErrInvalidTarget and changes nothing: not the
\* target, the environment or the failure callback, and no field is read.
C5_RefusedTargetUntouched ==
    (Done /\ ~WellFormed(last.pre)) =>
        /\ last.out = ErrInvalidTarget
        /\ target = last.pre
        /\ env = last.env
        /\ FailureFunc = last.ff
        /\ last.walked = {} /\ last.seen = {}
        /\ (last.op = "Decode" => failureCalls = <<>>)

\* a struct passed by value whose field could have been set
C5_Witness ==
    /\ last.op = "Decode"
    /\ last.pre.shape = "value" /\ last.pre.elem = "struct"
    /\ last.env[K1] = StrFoo
    /\ last.out = ErrInvalidTarget

\* C6: a null optional sub-record is still null after the call, whatever
\* the outcome, and nothing behind it is traversed; every by-value and every
\* non-null optional sub-record whose field the walk comes to is walked,
\* which is every one of the record when the call does not abort.
C6_NullStaysNullAndOthersWalked ==
    (Done /\ WellFormed(last.pre)) =>
        /\ \A q \in TypePaths(last.pre.s, <<>>) :
               (/\ PreField(q).kind = "ptr" /\ PreField(q).elem = "struct"
                /\ PreField(q).val.nil)
                   => PostField(q).val = PreField(q).val
        /\ \A q \in last.seen \cup (last.walked \ {<<>>}) :
               \A k \in 1..(Len(q) - 1) : IsSubRecord(PreField(SubSeq(q, 1, k)))
        /\ \A q \in last.walked \ {<<>>} : IsSubRecord(PreField(q))
        /\ \A q \in last.seen :
               (IsSubRecord(PreField(q)) /\ PreField(q).exported)
                   => q \in last.walked
        /\ last.out \in {NoErr, ErrInvalidTarget} =>
               \A i \in 1..Len(last.pre.s) :
                   (IsSubRecord(last.pre.s[i]) /\ last.pre.s[i].exported)
                       => <<i>> \in last.walked

\* a record with a null reference that stayed null and a non-null
\* reference whose record was walked and set
C6_Witness ==
    /\ Done /\ WellFormed(last.pre)
    /\ \E i, j \in 1..Len(last.pre.s) :
          /\ last.pre.s[i].kind = "ptr" /\ last.pre.s[i].val.nil
          /\ target.s[i].val.nil
          /\ last.pre.s[j].kind = "ptr" /\ ~last.pre.s[j].val.nil
          /\ <<j>> \in last.walked
          /\ target.s[j].val # last.pre.s[j].val

\* the resolved string of field f is non-empty and cannot be coerced
CoercionFails(f, e) ==
    /\ IsBound(f)
    /\ ResolvedValue(f, e) # EmptyStr
    /\ \/ /\ f.kind \in {"bool", "int", "uint", "float", "duration"}
          /\ ~Coerced(f.kind, f.bits, ResolvedValue(f, e)).ok
       \/ /\ f.kind = "ptr" /\ f.elem = "url" /\ f.val.nil
          /\ ~ParseURL(ResolvedValue(f, e)).ok

CoercesTo(f, e) == Coerced(f.kind, f.bits, ResolvedValue(f, e))

\* C7: a field whose resolved string cannot be coerced keeps its value;
\* Decode goes on with the following fields; and the failure makes Decode
\* return no error, also when the field is the only tagged one.
C7_FailedCoercionIsSilent ==
    (Done /\ WellFormed(last.pre)) =>
        /\ \A q \in PrePaths :
               CoercionFails(PreField(q), last.env)
                   => PostField(q).val = PreField(q).val
        /\ \A i \in 1..Len(last.pre.s) :
               CoercionFails(last.pre.s[i], last.env) =>
                   /\ (/\ last.out # Panic
                       /\ ~\E j \in 1..Len(last.pre.s) :
                              RequiredMissing(last.pre.s[j], last.env))
                         => last.out = NoErr
                   /\ \A j \in (i + 1)..Len(last.pre.s) :
                         (/\ last.out = NoErr
                          /\ IsBound(last.pre.s[j]) /\ IsScalar(last.pre.s[j])
                          /\ ResolvedValue(last.pre.s[j], last.env) # EmptyStr
                          /\ CoercesTo(last.pre.s[j], last.env).ok)
                            => target.s[j].val
                                 = CoercesTo(last.pre.s[j], last.env).v

\* an 8-bit integer field, alone in its record and holding 7, whose value
\* is out of range: the call succeeds and the field still holds 7
C7_Witness ==
    /\ Done /\ WellFormed(last.pre) /\ last.out = NoErr
    /\ Len(last.pre.s) = 1
    /\ last.pre.s[1].kind = "int" /\ last.pre.s[1].bits = 8
    /\ last.env[KV] = <<"1", "2", "8">>
    /\ CoercionFails(last.pre.s[1], last.env)
    /\ target.s[1].val = 7

\* C8: MustDecode decodes as Decode does, and calls the configured
\* FailureFunc exactly once, with the error, if and only if that decode
\* returns an error; otherwise the callback is not called.
C8_MustDecodeCallsFailureFunc ==
    /\ last.op = "MustDecode" =>
          /\ target = Decode(last.pre, last.env).t
          /\ last.out = Decode(last.pre, last.env).out
          /\ failureCalls =
                IF last.out.kind \in {"invalid", "missing"}
                THEN <<[fn |-> last.ff, err |-> last.out]>>
                ELSE <<>>
    /\ last.op # "MustDecode" => failureCalls = <<>>

\* the caller's own FailureFunc called once with a missing-required error
C8_Witness ==
    /\ last.op = "MustDecode" /\ last.ff = "custom"
    /\ last.out.kind = "missing"
    /\ Len(failureCalls) = 1 /\ failureCalls[1].err = ErrMissing(K2)
    /\ ~exited

\* the tag without the tokens that are neither the key, "required..." nor
\* "default=..."
RECURSIVE KnownTokens(_)
KnownTokens(opts) ==
    IF opts = <<>> THEN <<>>
    ELSE IF IsRequiredToken(Head(opts)) \/ IsDefaultToken(Head(opts))
    THEN <<Head(opts)>> \o KnownTokens(Tail(opts))
    ELSE KnownTokens(Tail(opts))

StripTag(tag) ==
    IF tag = EmptyStr THEN tag
    ELSE JoinComma(<<Head(TagTokens(tag))>> \o KnownTokens(Tail(TagTokens(tag))))

StripStruct(s) == [i \in 1..Len(s) |-> [s[i] EXCEPT !.tag = StripTag(@)]]

StripTarget(t) == [t EXCEPT !.s = StripStruct(@)]

\* C9: the first token of a tag is the key; a later token beginning with
\* "required" makes the field required, one beginning with "default=" sets
\* the default to the rest of the token; any other token is ignored
\* wherever it stands: the call behaves as on the tag without it, and
\* neither fails nor panics because of it.
C9_UnknownTokensIgnored ==
    (Done /\ WellFormed(last.pre)) =>
        /\ \A i \in 1..Len(last.pre.s) :
               last.pre.s[i].tag # EmptyStr
                  => ParseTag(last.pre.s[i].tag) = TagDirective(last.pre.s[i].tag)
        /\ Decode(StripTarget(last.pre), last.env).out = last.out
        /\ Decode(StripTarget(last.pre), last.env).t = StripTarget(target)

\* the tag K1,asdf=asdf,default=5 with K1 unset: the field holds "5"
C9_Witness ==
    /\ Done /\ WellFormed(last.pre) /\ last.out = NoErr
    /\ last.pre.s[1].tag
         = JoinComma(<<K1, <<"a", "s", "d", "f", "=", "a", "s", "d", "f">>,
                       StrDefaultEq \o <<"5">>>>)
    /\ last.env[K1] = EmptyStr
    /\ target.s[1].val = <<"5">>

\* strings.TrimSpace on the blanks of the model
RECURSIVE TrimLeft(_)
TrimLeft(s) == IF Len(s) > 0 /\ s[1] = " " THEN TrimLeft(Tail(s)) ELSE s

RECURSIVE TrimRight(_)
TrimRight(s) ==
    IF Len(s) > 0 /\ s[Len(s)] = " " THEN TrimRight(SubSeq(s, 1, Len(s) - 1))
    ELSE s

Segments(s) ==
    LET parts == Split(s, ";")
    IN  [i \in 1..Len(parts) |-> TrimRight(TrimLeft(parts[i]))]

\* C10: a tagged, settable slice field with a non-empty resolved value is
\* set to the resolved string split on ';', each segment trimmed and
\* coerced by the element shape's rule, in order.
C10_SliceFieldsSplit ==
    (Done /\ WellFormed(last.pre) /\ last.out = NoErr) =>
        \A i \in 1..Len(last.pre.s) :
            LET f == last.pre.s[i]
                segs == Segments(ResolvedValue(f, last.env))
            IN  (/\ IsBound(f) /\ f.kind = "slice"
                 /\ ResolvedValue(f, last.env) # EmptyStr
                 /\ \A k \in 1..Len(segs) : Coerced(f.elem, f.bits, segs[k]).ok)
                    => target.s[i].val
                         = [k \in 1..Len(segs) |-> Coerced(f.elem, f.bits, segs[k]).v]

\* the field's type has a Decode(string) error method on its pointer
HasDecoder(f) == "decoder" \in DOMAIN f

RECURSIVE Reverse(_)
Reverse(s) == IF s = <<>> THEN s ELSE Append(Reverse(Tail(s)), Head(s))

\* (*decoderString).Decode: the string reversed
DecoderStringWrites(s) == Reverse(s)

\* (*decoderStruct).Decode: json.Unmarshal into the struct; of the strings
\* of the model only {"string":"..."} is an object, which sets String
JSONPrefix == SubSeq(StrJSONFoo, 1, 11)

JSONSuffix == <<"\"", "}">>

IsJSONString(s) ==
    /\ Len(s) >= Len(JSONPrefix) + Len(JSONSuffix)
    /\ HasPrefix(s, JSONPrefix)
    /\ SubSeq(s, Len(s) - 1, Len(s)) = JSONSuffix
    /\ \A i \in (Len(JSONPrefix) + 1)..(Len(s) - 2) : s[i] \notin {"\"", "\\"}

DecoderStructWrites(old, s) ==
    IF IsJSONString(s)
    THEN <<[old[1] EXCEPT !.val = SubSeq(s, Len(JSONPrefix) + 1, Len(s) - 2)]>>
    ELSE old

\* the value of field f after its decoder ran once on s
DecoderWrites(f, s) ==
    CASE f.kind = "string" -> DecoderStringWrites(s)
      [] f.kind = "struct" -> DecoderStructWrites(f.val, s)
      [] f.kind = "ptr" ->
            [nil |-> FALSE, v |-> DecoderStructWrites(f.val.v, s)]

\* C11: after a successful Decode, every tagged, settable field whose type
\* has the custom Decode method and whose resolved value is non-empty holds
\* what one call of that method on the resolved string writes, not what the
\* built-in rule of its shape would: also for a string-shaped type, a
\* struct and a non-nil pointer to a struct.
C11_DecoderInvoked ==
    (Done /\ WellFormed(last.pre) /\ last.out = NoErr) =>
        \A i \in 1..Len(last.pre.s) :
            LET f == last.pre.s[i]
            IN  (/\ HasDecoder(f) /\ IsBound(f)
                 /\ ResolvedValue(f, last.env) # EmptyStr
                 /\ (f.kind = "ptr" => ~f.val.nil))
                    => target.s[i].val
                         = DecoderWrites(f, ResolvedValue(f, last.env))

\* the field holds a struct: by value or behind a pointer, nil or not
HoldsStruct(f) ==
    f.kind = "struct" \/ (f.kind = "ptr" /\ f.elem \in {"struct", "url"})

\* struct s without its unsettable fields, at every depth
RECURSIVE SettableOnly(_)
SettableOnly(s) ==
    IF s = <<>> THEN <<>>
    ELSE (IF ~Head(s).exported THEN <<>>
          ELSE IF Head(s).kind = "struct"
          THEN <<[Head(s) EXCEPT !.val = SettableOnly(@)]>>
          ELSE IF HoldsStruct(Head(s))
          THEN <<[Head(s) EXCEPT !.val.v = SettableOnly(@)]>>
          ELSE <<Head(s)>>)
         \o SettableOnly(Tail(s))

\* C13: a field that cannot be set is skipped whatever its shape and tag:
\* the call ends as it does on the record without the unsettable fields,
\* neither panicking nor returning an error because of one, and every
\* unsettable field is after the call as it was before, also when it is a
\* by-value sub-record or a non-nil pointer to one, or is tagged required
\* with a missing key or with both required and a default.
C13_UnsettableSkipped ==
    (Done /\ WellFormed(last.pre)) =>
        /\ last.out = Decode([last.pre EXCEPT !.s = SettableOnly(@)], last.env).out
        /\ \A q \in TypePaths(last.pre.s, <<>>) :
               ~PreField(q).exported => PostField(q) = PreField(q)

\* the dotted path of the field at index path q
RECURSIVE DottedName(_)
DottedName(q) ==
    IF Len(q) = 1 THEN FieldName(q[1])
    ELSE FieldName(q[1]) \o <<".">> \o DottedName(Tail(q))

\* a leaf field: not a nested record or a reference to one, unless its
\* type is custom-decodable
IsLeafField(f) ==
    HasDecoder(f) \/ ~(f.kind = "struct" \/ (f.kind = "ptr" /\ f.elem = "struct"))

\* the tagged leaf fields reachable through by-value and non-null optional
\* sub-records
LeafPaths ==
    {q \in FieldPaths(target.s, <<>>) :
        /\ IsBound(FieldAt(target.s, q))
        /\ TagDirective(FieldAt(target.s, q).tag).key # EmptyStr
        /\ IsLeafField(FieldAt(target.s, q))}

\* C12: Export on a decoded record returns exactly one entry per tagged
\* leaf field reachable through by-value and non-null optional sub-records,
\* under the dotted path of the field; the entry's UsesEnv is true exactly
\* when the environment holds a non-empty value for its key; the entries
\* are sorted, so that two Export calls return identical lists; and Export
\* leaves the record as Decode left it.
C12_ExportReportsLeaves ==
    \A k \in 1..Len(report) :
        WellFormed(target) =>
            /\ report[k].err = NoErr
            /\ Len(report[k].cfg) = Cardinality(LeafPaths)
            /\ \A q \in LeafPaths :
                   \E n \in 1..Len(report[k].cfg) :
                       /\ report[k].cfg[n].field = DottedName(q)
                       /\ report[k].cfg[n].envVar
                            = TagDirective(FieldAt(target.s, q).tag).key
                       /\ report[k].cfg[n].usesEnv
                            = (EnvValue(FieldAt(target.s, q), env) # EmptyStr)
                       /\ \A m \in 1..Len(report[k].cfg) :
                              report[k].cfg[m].field = DottedName(q) => m = n
            /\ \A n \in 1..(Len(report[k].cfg) - 1) :
                   \/ StrLess(report[k].cfg[n].field, report[k].cfg[n + 1].field)
                   \/ /\ report[k].cfg[n].field = report[k].cfg[n + 1].field
                      /\ StrLess(report[k].cfg[n].envVar,
                                 report[k].cfg[n + 1].envVar)
            /\ \A j \in 1..Len(report) : report[j].cfg = report[k].cfg
            /\ target = Decode(last.pre, last.env).t

\* two Export calls after a successful Decode of a record whose first field
\* is a nested record with a field set from the environment and whose
\* second field took its default: the second field's entry comes first
C12_Witness ==
    /\ Len(report) = 2 /\ last.out = NoErr
    /\ Len(report[2].cfg) = 2
    /\ report[2].cfg[1].field = FieldName(2)
    /\ ~report[2].cfg[1].usesEnv /\ report[2].cfg[1].hasDefault
    /\ report[2].cfg[2].field = FieldName(1) \o <<".">> \o FieldName(1)
    /\ report[2].cfg[2].usesEnv

=============================================================================
